---------------------------- MODULE Spec2Model ----------------------------
(***************************************************************************)
(* yid_py: reversible base-62 short-id encoder (src/yid_py/converter.py).  *)
(*                                                                         *)
(* A character is a one-character string, a Python str is a sequence of    *)
(* characters.  A Python int is arbitrary-precision; it is kept as a sign  *)
(* and a magnitude of base-62 limbs, least significant first, so that the  *)
(* values the code computes with beyond 2^31 (62^9, 62^15, ...) are exact. *)
(* The outcome of a call is a record [exc, val]: exc = "none" and the      *)
(* returned value, or the class of the exception that left the call.       *)
(***************************************************************************)
EXTENDS Integers, Sequences, FiniteSets, TLC

\* converter.py:32  _DICT_LEN = len(_DICTIONARY)
_DICT_LEN == 62

\* converter.py:31  string.ascii_lowercase + string.digits + string.ascii_uppercase
_DICTIONARY ==
    << "a","b","c","d","e","f","g","h","i","j","k","l","m",
       "n","o","p","q","r","s","t","u","v","w","x","y","z",
       "0","1","2","3","4","5","6","7","8","9",
       "A","B","C","D","E","F","G","H","I","J","K","L","M",
       "N","O","P","Q","R","S","T","U","V","W","X","Y","Z" >>

-----------------------------------------------------------------------------
(* Python int: arbitrary-precision integer arithmetic.                     *)

RECURSIVE Limbs(_)
\* The limbs of a natural number small enough to be written as a literal.
Limbs(n) == IF n = 0 THEN << >> ELSE << n % _DICT_LEN >> \o Limbs(n \div _DICT_LEN)

\* The Python int with the value of the literal n.
PyInt(n) == IF n < 0 THEN [neg |-> TRUE, mag |-> Limbs(0 - n)]
                     ELSE [neg |-> FALSE, mag |-> Limbs(n)]

\* A magnitude without its zero limbs at the most significant end.
Strip(m) ==
    LET nonzero == {i \in 1..Len(m) : m[i] # 0}
    IN  IF nonzero = {} THEN << >>
        ELSE SubSeq(m, 1, CHOOSE i \in nonzero : \A j \in nonzero : j <= i)

\* A sign and a magnitude as a Python int; zero has no sign.
MkInt(neg, m) == LET s == Strip(m) IN [neg |-> (neg /\ s # << >>), mag |-> s]

RestOf(m) == IF m = << >> THEN << >> ELSE Tail(m)
LimbOf(m) == IF m = << >> THEN 0 ELSE Head(m)

RECURSIVE AddMag(_, _, _)
\* a + b + carry on magnitudes.
AddMag(a, b, carry) ==
    IF a = << >> /\ b = << >>
    THEN (IF carry = 0 THEN << >> ELSE << carry >>)
    ELSE LET s == LimbOf(a) + LimbOf(b) + carry
         IN  << s % _DICT_LEN >> \o AddMag(RestOf(a), RestOf(b), s \div _DICT_LEN)

RECURSIVE SubMag(_, _, _)
\* a - b - borrow on magnitudes, for a >= b + borrow.
SubMag(a, b, borrow) ==
    IF a = << >> THEN << >>
    ELSE LET d == LimbOf(a) - LimbOf(b) - borrow
         IN  IF d < 0
             THEN << d + _DICT_LEN >> \o SubMag(RestOf(a), RestOf(b), 1)
             ELSE << d >> \o SubMag(RestOf(a), RestOf(b), 0)

\* a < b on stripped magnitudes.
LessMag(a, b) ==
    \/ Len(a) < Len(b)
    \/ /\ Len(a) = Len(b)
       /\ \E i \in 1..Len(a) :
             /\ a[i] < b[i]
             /\ \A j \in (i + 1)..Len(a) : a[j] = b[j]

\* x + y
IntAdd(x, y) ==
    IF x.neg = y.neg THEN MkInt(x.neg, AddMag(x.mag, y.mag, 0))
    ELSE IF LessMag(x.mag, y.mag) THEN MkInt(y.neg, SubMag(y.mag, x.mag, 0))
    ELSE MkInt(x.neg, SubMag(x.mag, y.mag, 0))

\* x - y
IntSub(x, y) == IntAdd(x, MkInt(~y.neg, y.mag))

\* x < y
IntLess(x, y) ==
    IF x.neg # y.neg THEN x.neg
    ELSE IF x.neg THEN LessMag(y.mag, x.mag) ELSE LessMag(x.mag, y.mag)

RECURSIVE MulMag(_, _, _)
\* d * a + carry on a magnitude, d one limb.
MulMag(d, a, carry) ==
    IF a = << >> THEN (IF carry = 0 THEN << >> ELSE << carry >>)
    ELSE LET p == d * Head(a) + carry
         IN  << p % _DICT_LEN >> \o MulMag(d, Tail(a), p \div _DICT_LEN)

\* index * x, index a dictionary index (0.._DICT_LEN - 1).
IntMul(index, x) == MkInt(x.neg, MulMag(index, x.mag, 0))

\* _DICT_LEN ** e, e >= 0
DictLenPow(e) == [neg |-> FALSE, mag |-> [i \in 1..(e + 1) |-> IF i = e + 1 THEN 1 ELSE 0]]

\* x // bcp for x >= 0 and bcp a power of _DICT_LEN, the only divisor the code uses.
IntFloorDiv(x, bcp) ==
    LET e == Len(bcp.mag) - 1
    IN  MkInt(FALSE, SubSeq(x.mag, e + 1, Len(x.mag)))

\* x % _DICT_LEN for x >= 0, as a dictionary index.
IntModDictLen(x) == LimbOf(x.mag)

-----------------------------------------------------------------------------
(* Outcomes of a call, and the library calls the code makes.               *)

Return(v) == [exc |-> "none", val |-> v]
Raise(e) == [exc |-> e, val |-> << >>]

\* secure_key: str | None.  None is the empty option, a str the option holding it.
None == << >>
Some(s) == << s >>
\* Python truthiness of secure_key: None and "" are falsy.
Truthy(secure_key) == secure_key # None /\ secure_key[1] # ""

\* dictionary.index(char): the 0-based place of char; ValueError when absent.
str_index(dictionary, char) ==
    LET places == {i \in 1..Len(dictionary) : dictionary[i] = char}
    IN  IF places = {} THEN Raise("ValueError")
        ELSE Return((CHOOSE i \in places : \A j \in places : i <= j) - 1)

\* char.upper() / char.lower() on the characters a str of this program can hold:
\* a-z and A-Z map onto each other place by place, every other character stays.
char_upper(c) ==
    IF \E i \in 1..26 : _DICTIONARY[i] = c
    THEN _DICTIONARY[(CHOOSE i \in 1..26 : _DICTIONARY[i] = c) + 36]
    ELSE c
char_lower(c) ==
    IF \E i \in 37..62 : _DICTIONARY[i] = c
    THEN _DICTIONARY[(CHOOSE i \in 37..62 : _DICTIONARY[i] = c) - 36]
    ELSE c
str_upper(value) == [i \in 1..Len(value) |-> char_upper(value[i])]
str_lower(value) == [i \in 1..Len(value) |-> char_lower(value[i])]

(***************************************************************************)
(* int(math.log(number, _DICT_LEN)).  math.log raises ValueError ("math    *)
(* domain error") for number <= 0.  Otherwise it is the binary64 quotient  *)
(* log(number) / log(62), which int() truncates.  The quotient truncates   *)
(* to the exact floor(log62(number)) except where rounding carries it      *)
(* across an integer (CPython 3.11, IEEE-754 binary64):                    *)
(*   - for 62^k - LogRoundsUp[k] <= number < 62^k the quotient is k.0;     *)
(*   - for 62^k <= number <= 62^k + LogRoundsDown[k] it is below k.        *)
(* The widths are magnitudes (base-62 limbs); no power below 62^9 is       *)
(* affected, and the tables cover every number below 62^21.                *)
(***************************************************************************)
LogRoundsUp ==
    (9  :> << 8, 1 >>) @@
    (10 :> << 18, 9 >>) @@
    (11 :> << 38, 9, 43 >>) @@
    (12 :> << 14, 59, 6, 16, 1 >>) @@
    (13 :> << 10, 43, 49, 7, 16 >>) @@
    (14 :> << 17, 23, 1, 9, 44, 49 >>) @@
    (16 :> << 56, 12, 60, 24, 15, 22, 24, 9, 1 >>) @@
    (17 :> << 36, 6, 46, 30, 46, 54, 14, 0, 11 >>) @@
    (18 :> << 11, 20, 61, 35, 20, 14, 23, 60, 38, 15, 2 >>) @@
    (19 :> << 5, 7, 10, 26, 41, 7, 21, 20, 10, 0, 18, 1 >>) @@
    (20 :> << 10, 51, 35, 12, 39, 16, 50, 13, 58, 11, 2, 17 >>) @@
    (21 :> << 40, 22, 1, 10, 53, 2, 21, 37, 16, 58, 39, 22, 25, 2 >>)
LogRoundsDown ==
    (15 :> << 8, 26, 21, 11, 13, 13, 10 >>)

\* floor(log62(number)) for number >= 1, exactly.
ExactLog(number) == Len(number.mag) - 1

\* A variant of int_math_log in which the quotient of every exact power 62^e,
\* e >= 1, stays below e.
int_math_log_low_at_powers(number) ==
    IF number.neg \/ number.mag = << >> THEN Raise("ValueError")
    ELSE LET e == ExactLog(number)
         IN  Return(IF e >= 1 /\ number = DictLenPow(e) THEN e - 1 ELSE e)

int_math_log(number) ==
    IF number.neg \/ number.mag = << >> THEN Raise("ValueError")
    ELSE LET e == ExactLog(number)
             down == /\ e \in DOMAIN LogRoundsDown
                     /\ ~LessMag(LogRoundsDown[e],
                                 IntSub(number, DictLenPow(e)).mag)
             up == /\ (e + 1) \in DOMAIN LogRoundsUp
                   /\ ~LessMag(LogRoundsUp[e + 1],
                               IntSub(DictLenPow(e + 1), number).mag)
         IN  Return(IF down THEN e - 1 ELSE IF up THEN e + 1 ELSE e)

\* hashlib.sha256(secure_key.encode()).hexdigest() of the keys in use and of "".
sha256_hexdigest(secure_key) ==
    CASE secure_key = "secret" ->
           << "2","b","b","8","0","d","5","3","7","b","1","d","a","3","e","3",
              "8","b","d","3","0","3","6","1","a","a","8","5","5","6","8","6",
              "b","d","e","0","e","a","c","d","7","1","6","2","f","e","f","6",
              "a","2","5","f","e","9","7","b","f","5","2","7","a","2","5","b" >>
      [] secure_key = "my-secret" ->
           << "1","8","6","e","f","7","6","e","9","d","6","a","7","2","3","e",
              "c","b","5","7","0","d","4","d","9","c","2","8","7","4","8","7",
              "d","0","0","1","e","5","d","3","5","f","7","e","d","4","a","3",
              "1","3","3","5","0","a","4","0","7","9","5","0","3","1","8","e" >>
      [] secure_key = "" ->
           << "e","3","b","0","c","4","4","2","9","8","f","c","1","c","1","4",
              "9","a","f","b","f","4","c","8","9","9","6","f","b","9","2","4",
              "2","7","a","e","4","1","e","4","6","4","9","b","9","3","4","c",
              "a","4","9","5","9","9","1","b","7","8","5","2","b","8","5","5" >>

\* hashlib.sha512(secure_key.encode()).hexdigest() of the keys in use and of "".
sha512_hexdigest(secure_key) ==
    CASE secure_key = "secret" ->
           << "b","d","2","b","1","a","a","f","7","e","f","4","f","0","9","b",
              "e","9","f","5","2","c","e","2","d","8","d","5","9","9","6","7",
              "4","d","8","1","a","a","9","d","6","a","4","4","2","1","6","9",
              "6","d","c","4","d","9","3","d","d","0","6","1","9","d","6","8",
              "2","c","e","5","6","b","4","d","6","4","a","9","e","f","0","9",
              "7","7","6","1","c","e","d","9","9","e","0","f","6","7","2","6",
              "5","b","5","f","7","6","0","8","5","e","5","b","0","e","e","7",
              "c","a","4","6","9","6","b","2","a","d","6","f","e","2","b","2" >>
      [] secure_key = "my-secret" ->
           << "1","6","b","f","b","0","b","6","0","b","2","1","3","e","3","5",
              "5","a","1","a","0","2","2","4","8","e","7","a","5","e","f","5",
              "d","1","7","9","b","f","a","c","0","e","a","f","5","a","1","f",
              "a","2","5","4","3","6","9","2","9","1","4","c","b","e","5","6",
              "a","a","7","6","c","2","2","f","1","6","f","1","c","d","b","a",
              "e","6","c","f","d","6","3","3","e","9","6","9","0","0","4","7",
              "5","f","8","7","c","4","0","9","e","e","0","c","8","b","a","4",
              "9","7","6","c","a","3","0","3","3","f","5","a","b","0","2","8" >>
      [] secure_key = "" ->
           << "c","f","8","3","e","1","3","5","7","e","e","f","b","8","b","d",
              "f","1","5","4","2","8","5","0","d","6","6","d","8","0","0","7",
              "d","6","2","0","e","4","0","5","0","b","5","7","1","5","d","c",
              "8","3","f","4","a","9","2","1","d","3","6","c","e","9","c","e",
              "4","7","d","0","d","1","3","c","5","d","8","5","f","2","b","0",
              "f","f","8","3","1","8","d","2","8","7","7","e","e","c","2","f",
              "6","3","b","9","3","1","b","d","4","7","4","1","7","a","8","1",
              "a","5","3","8","3","2","7","a","f","9","2","7","d","a","3","e" >>

\* The characters of a hexdigest in code point order: how sorted() compares them.
HexChars == << "0","1","2","3","4","5","6","7","8","9","a","b","c","d","e","f" >>
ord(c) == CHOOSE i \in 1..Len(HexChars) : HexChars[i] = c

RECURSIVE SortedFrom(_, _)
\* The pairs whose key is HexChars[k] or smaller, greatest key first, pairs with
\* the same key in the order they have in pairs.
SortedFrom(pairs, k) ==
    IF k = 0 THEN << >>
    ELSE SelectSeq(pairs, LAMBDA pair : ord(pair[1]) = k) \o SortedFrom(pairs, k - 1)

\* reversed(sorted(pairs, key=lambda x: x[0])): descending as well, but pairs with
\* the same key come out in the reverse of the order they have in pairs.
sorted_then_reversed(pairs) ==
    SortedFrom([i \in 1..Len(pairs) |-> pairs[Len(pairs) + 1 - i]], Len(HexChars))

\* sorted(pairs, key=lambda x: x[0], reverse=True): a stable sort, descending.
sorted_reverse(pairs) == SortedFrom(pairs, Len(HexChars))

-----------------------------------------------------------------------------
(* Private functions of converter.py.                                      *)

\* Transform, and a value that is no member of it.
Transform == {"NONE", "UPPER", "LOWER"}

\* The body of _secure_dictionary from the two hexdigests on: the dictionary in
\* the order of the digest.
Shuffled(sha256_hash, sha512_hash) ==
    LET secure_hash == IF Len(sha256_hash) < _DICT_LEN
                       THEN sha512_hash
                       ELSE sha256_hash
        zipped == [i \in 1.._DICT_LEN |-> << secure_hash[i], _DICTIONARY[i] >>]
        paired == sorted_reverse(zipped)
    IN  [i \in 1..Len(paired) |-> paired[i][2]]

\* The body of _secure_dictionary.
SecureDictionary(secure_key) ==
    Shuffled(sha256_hexdigest(secure_key), sha512_hexdigest(secure_key))

\* The keys in use, and what the body returns for each: it is a pure function,
\* evaluated once per key.
KeyStrings == {"secret", "my-secret"}
SecureDictionaries == [secure_key \in KeyStrings |-> << >> \o SecureDictionary(secure_key)]

_secure_dictionary(secure_key) == SecureDictionaries[secure_key]

RECURSIVE NumToAlphaLoop(_, _, _, _)
\* while t >= 0: one digit per turn, most significant first.
NumToAlphaLoop(number, dictionary, t, output) ==
    IF t >= 0
    THEN LET bcp == DictLenPow(t)
             index == IntModDictLen(IntFloorDiv(number, bcp))
         IN  NumToAlphaLoop(IntSub(number, IntMul(index, bcp)), dictionary,
                            t - 1, Append(output, dictionary[index + 1]))
    ELSE output

_num_to_alpha(number, dictionary, pad_up) ==
    LET padded == IF pad_up > 1
                  THEN IntAdd(number, DictLenPow(pad_up - 1))
                  ELSE number
    IN  IF padded = PyInt(0) THEN Return(<< dictionary[1] >>)
        ELSE LET t == int_math_log(padded)
             IN  IF t.exc # "none" THEN t
                 ELSE Return(NumToAlphaLoop(padded, dictionary, t.val, << >>))

RECURSIVE AlphaToNumLoop(_, _, _, _)
\* for i, char in enumerate(reversed(alphanumeric)), from turn i with result so far.
AlphaToNumLoop(alphanumeric, dictionary, i, result) ==
    IF i >= Len(alphanumeric) THEN Return(result)
    ELSE LET char == alphanumeric[Len(alphanumeric) - i]
             index == str_index(dictionary, char)
         IN  IF index.exc # "none" THEN index
             ELSE AlphaToNumLoop(alphanumeric, dictionary, i + 1,
                                 IntAdd(result, IntMul(index.val, DictLenPow(i))))

\* A variant of _alpha_to_num that does not take the padding offset off.
_alpha_to_num_keeping_offset(alphanumeric, dictionary, pad_up) ==
    AlphaToNumLoop(alphanumeric, dictionary, 0, PyInt(0))

_alpha_to_num(alphanumeric, dictionary, pad_up) ==
    LET result == AlphaToNumLoop(alphanumeric, dictionary, 0, PyInt(0))
    IN  IF result.exc # "none" THEN result
        ELSE IF pad_up > 1
             THEN Return(IntSub(result.val, DictLenPow(pad_up - 1)))
             ELSE result

\* A variant of _apply_transform whose LOWER case upper-cases.
_apply_transform_lower_as_upper(value, transform) ==
    CASE transform = "NONE" -> Return(value)
      [] transform = "UPPER" -> Return(str_upper(value))
      [] transform = "LOWER" -> Return(str_upper(value))
      [] OTHER -> Raise("ConverterError")

\* A variant of _apply_transform that returns the value for an unknown transform.
_apply_transform_ignoring_unknown(value, transform) ==
    CASE transform = "UPPER" -> Return(str_upper(value))
      [] transform = "LOWER" -> Return(str_lower(value))
      [] OTHER -> Return(value)

_apply_transform(value, transform) ==
    CASE transform = "NONE" -> Return(value)
      [] transform = "UPPER" -> Return(str_upper(value))
      [] transform = "LOWER" -> Return(str_lower(value))
      [] OTHER -> Raise("ConverterError")

-----------------------------------------------------------------------------
(* Public functions and the Encoder class.                                 *)

to_alphanumeric(number, pad_up, secure_key, transform) ==
    LET dictionary == IF Truthy(secure_key)
                      THEN _secure_dictionary(secure_key[1])
                      ELSE _DICTIONARY
        result == _num_to_alpha(number, dictionary, pad_up)
    IN  IF result.exc # "none" THEN result
        ELSE _apply_transform(result.val, transform)

to_numeric(alphanumeric, pad_up, secure_key) ==
    LET dictionary == IF Truthy(secure_key)
                      THEN _secure_dictionary(secure_key[1])
                      ELSE _DICTIONARY
    IN  _alpha_to_num(alphanumeric, dictionary, pad_up)

\* Encoder.__init__
Encoder(pad_up, secure_key, transform) ==
    [ _pad_up |-> pad_up,
      _secure_key |-> secure_key,
      _transform |-> transform,
      _dictionary |-> IF Truthy(secure_key)
                      THEN _secure_dictionary(secure_key[1])
                      ELSE _DICTIONARY ]

\* Encoder.encode
encode(self, number) ==
    LET result == _num_to_alpha(number, self._dictionary, self._pad_up)
    IN  IF result.exc # "none" THEN result
        ELSE _apply_transform(result.val, self._transform)

\* Encoder.encode_raw
encode_raw(self, number) == _num_to_alpha(number, self._dictionary, self._pad_up)

\* Encoder.decode
decode(self, alphanumeric) ==
    _alpha_to_num(alphanumeric, self._dictionary, self._pad_up)

create(pad_up, secure_key, transform) == Encoder(pad_up, secure_key, transform)

-----------------------------------------------------------------------------
(* The inputs.                                                             *)

\* Numbers 0..MaxSmall; the powers 62^1..62^MaxPow, each with the numbers up to
\* MaxDelta away from it; pad_up 0..3 and MaxPad.
MaxSmall == 3
MaxPow == 9
MaxDelta == 1
MaxPad == 16

PadUps == (0..3) \cup {MaxPad}
Keys == {None, Some("")} \cup {Some(secure_key) : secure_key \in KeyStrings}
Transforms == Transform \cup {"invalid"}

NonNegatives ==
    {PyInt(n) : n \in 0..MaxSmall} \cup {PyInt(12345)} \cup
    {IntAdd(DictLenPow(k), PyInt(d)) : k \in 1..MaxPow, d \in (0 - MaxDelta)..MaxDelta}
Negatives ==
    {PyInt(0 - 1)} \cup {PyInt(d - _DICT_LEN) : d \in (0 - MaxDelta)..MaxDelta}
Numbers == NonNegatives \cup Negatives

\* Texts a caller may hand to decode besides what encode returned.
Texts ==
    { << >>, << "-" >>, << "a", "-", "b" >>, << "d", "n", "h" >>,
      << "H", "Q", "J" >>, << "h", "q", "j" >> }

-----------------------------------------------------------------------------
(* The state: one Encoder, the last encoding call made with its            *)
(* configuration and the last decoding call made after it.                 *)

VARIABLES self, call, dcall

vars == << self, call, dcall >>

NoCall == [op |-> "none"]

Init ==
    /\ \E pad_up \in PadUps, secure_key \in Keys, transform \in Transforms :
          self = create(pad_up, secure_key, transform)
    /\ call = NoCall
    /\ dcall = NoCall

\* self.encode(number)
Encode(number) ==
    /\ call' = [op |-> "encode", number |-> number, result |-> encode(self, number)]
    /\ dcall' = NoCall
    /\ UNCHANGED self

\* self.encode_raw(number)
EncodeRaw(number) ==
    /\ call' = [op |-> "encode_raw", number |-> number,
                result |-> encode_raw(self, number)]
    /\ dcall' = NoCall
    /\ UNCHANGED self

\* to_alphanumeric(number, pad_up, secure_key, transform) with the arguments the
\* encoder was created with.
ToAlphanumeric(number) ==
    /\ call' = [op |-> "to_alphanumeric", number |-> number,
                result |-> to_alphanumeric(number, self._pad_up,
                                           self._secure_key, self._transform)]
    /\ dcall' = NoCall
    /\ UNCHANGED self

\* The str the last encoding call returned, if it returned.
Returned == IF call.op # "none" /\ call.result.exc = "none"
            THEN {call.result.val} ELSE {}

\* self.decode(alphanumeric)
Decode(alphanumeric) ==
    /\ dcall' = [op |-> "decode", text |-> alphanumeric,
                 pad_up |-> self._pad_up, secure_key |-> self._secure_key,
                 result |-> decode(self, alphanumeric)]
    /\ UNCHANGED << self, call >>

\* to_numeric(alphanumeric, pad_up, secure_key), any pad_up and key.
ToNumeric(alphanumeric, pad_up, secure_key) ==
    /\ dcall' = [op |-> "to_numeric", text |-> alphanumeric,
                 pad_up |-> pad_up, secure_key |-> secure_key,
                 result |-> to_numeric(alphanumeric, pad_up, secure_key)]
    /\ UNCHANGED << self, call >>

\* One session: an encoding call on the fresh encoder, then a decoding call, by
\* the encoder's methods or by the module's functions.
Next ==
    \/ /\ call.op = "none" /\ dcall.op = "none"
       /\ \E number \in Numbers : Encode(number)
    \/ /\ call.op = "none" /\ dcall.op = "none"
       /\ \E number \in Numbers : EncodeRaw(number)
    \/ /\ call.op = "none" /\ dcall.op = "none"
       /\ \E number \in Numbers : ToAlphanumeric(number)
    \/ /\ call.op # "to_alphanumeric" /\ dcall.op = "none"
       /\ \E alphanumeric \in Texts \cup Returned : Decode(alphanumeric)
    \/ /\ call.op = "to_alphanumeric" /\ dcall.op = "none"
       /\ \E alphanumeric \in Returned, pad_up \in PadUps, secure_key \in Keys :
             ToNumeric(alphanumeric, pad_up, secure_key)

Spec == Init /\ [][Next]_vars

-----------------------------------------------------------------------------
(* What the properties below speak of.                                     *)

\* The set of characters of a str.
CharsOf(value) == {value[i] : i \in 1..Len(value)}

\* The number that is turned into digits: number plus the padding offset.
OffsetNumber(number, pad_up) ==
    IF pad_up > 1 THEN IntAdd(number, DictLenPow(pad_up - 1)) ELSE number

\* The alphabet a key stands for.
AlphabetOf(secure_key) == Encoder(0, secure_key, "NONE")._dictionary

\* An encoding call was made with a number >= 0 and returned a str.
Encoded == call.op # "none" /\ ~call.number.neg /\ call.result.exc = "none"

\* The last decoding call was given what a raw encoding call returned, with the
\* pad_up and key of that call.
IsRoundTrip ==
    /\ Encoded
    /\ \/ call.op = "encode_raw" /\ dcall.op = "decode"
       \/ /\ call.op = "to_alphanumeric" /\ self._transform = "NONE"
          /\ dcall.op = "to_numeric"
          /\ dcall.pad_up = self._pad_up /\ dcall.secure_key = self._secure_key
    /\ dcall.text = call.result.val

\* C1: decoding the raw encoding of a number >= 0 with the same pad_up and key
\* returns that number.
C1_RoundTrip == IsRoundTrip => dcall.result = Return(call.number)

\* C2: decode raises ConverterError when the text is empty or holds a character
\* that is not in the active alphabet.
C2_DecodeRejects ==
    (/\ dcall.op # "none"
     /\ \/ dcall.text = << >>
        \/ ~(CharsOf(dcall.text) \subseteq CharsOf(AlphabetOf(dcall.secure_key))))
    => dcall.result.exc = "ConverterError"

\* C3: encode raises ConverterError for every negative number, whatever pad_up is.
C3_NegativeRejected ==
    (call.op # "none" /\ call.number.neg) => call.result.exc = "ConverterError"

\* C4: the raw encoding of an offset number m >= 1 is the minimal base-62 numeral:
\* floor(log62(m)) + 1 characters, the first of them not alphabet[0]; alphabet[0]
\* alone encodes only 0.
C4_MinimalNumeral ==
    (Encoded /\ call.op = "encode_raw")
    => LET m == OffsetNumber(call.number, self._pad_up)
           out == call.result.val
       IN  /\ m # PyInt(0) => /\ Len(out) = ExactLog(m) + 1
                               /\ out[1] # self._dictionary[1]
           /\ out = << self._dictionary[1] >> => m = PyInt(0)

\* C5: with pad_up = k >= 2 the raw encoding of a number >= 0 has at least k
\* characters.
C5_MinimumLength ==
    (Encoded /\ call.op = "encode_raw" /\ self._pad_up >= 2)
    => Len(call.result.val) >= self._pad_up

\* The lower-case letters with their upper-case ones.
LetterPairs == {<< _DICTIONARY[i], _DICTIONARY[i + 36] >> : i \in 1..26}
IsUpperOf(c, r) == << r, c >> \in LetterPairs \/ (c = r /\ \A p \in LetterPairs : p[1] # r)
IsLowerOf(c, r) == << c, r >> \in LetterPairs \/ (c = r /\ \A p \in LetterPairs : p[2] # r)

\* C6: encode returns encode_raw's str with every character upper-cased under
\* UPPER, lower-cased under LOWER and unchanged under NONE (and raises what
\* encode_raw raises); encode_raw returns what encode returns without a transform.
C6_TransformOfRaw ==
    /\ (/\ call.op \in {"encode", "to_alphanumeric"} /\ dcall.op = "none"
        /\ self._transform \in Transform)
       => LET raw == encode_raw(self, call.number)
              out == call.result
          IN  IF raw.exc # "none" THEN out = raw
              ELSE /\ out.exc = "none"
                   /\ Len(out.val) = Len(raw.val)
                   /\ \A i \in 1..Len(raw.val) :
                         CASE self._transform = "UPPER" -> IsUpperOf(out.val[i], raw.val[i])
                           [] self._transform = "LOWER" -> IsLowerOf(out.val[i], raw.val[i])
                           [] OTHER -> out.val[i] = raw.val[i]
    /\ (call.op = "encode_raw" /\ dcall.op = "none")
       => call.result = encode(Encoder(self._pad_up, self._secure_key, "NONE"),
                               call.number)

\* encode returned an upper-cased str that differs from the raw one.
C6_Witness ==
    /\ Encoded /\ call.op = "encode" /\ self._transform = "UPPER"
    /\ call.result.val # encode_raw(self, call.number).val

\* C7: under one configuration two distinct numbers >= 0 never have the same raw
\* encoding: the one encoded differs from that of every smaller number.
C7_NoCollision ==
    (Encoded /\ call.op = "encode_raw" /\ dcall.op = "none")
    => \A other \in NonNegatives :
          IntLess(other, call.number) => encode_raw(self, other) # call.result

\* The raw encoding of an exact power of 62 was made.
C7_Witness ==
    /\ Encoded /\ call.op = "encode_raw"
    /\ \E k \in 1..MaxPow : call.number = DictLenPow(k)

\* C8: a transform that is not a member of Transform makes encode raise
\* ConverterError on a number >= 0; no str is returned.
C8_InvalidTransform ==
    (/\ call.op \in {"encode", "to_alphanumeric"} /\ ~call.number.neg
     /\ self._transform \notin Transform)
    => call.result.exc = "ConverterError"

\* encode was called with a number >= 0 on an encoder whose transform is not a
\* member of Transform, and raised ConverterError.
C8_Witness ==
    /\ call.op = "encode" /\ ~call.number.neg
    /\ self._transform \notin Transform
    /\ call.result.exc = "ConverterError"

\* The offset a pad_up stands for: none for 0 and 1.
PadOffset(pad_up) == IF pad_up > 1 THEN DictLenPow(pad_up - 1) ELSE PyInt(0)

\* A raw encoding was decoded by to_numeric with another key or another pad_up.
WrongKeyOrPad ==
    /\ Encoded /\ call.op = "to_alphanumeric" /\ self._transform = "NONE"
    /\ dcall.op = "to_numeric"
    /\ dcall.secure_key # self._secure_key \/ dcall.pad_up # self._pad_up

\* A case-transformed encoding was decoded by the encoder that made it.
TransformedDecoded ==
    /\ Encoded /\ call.op = "encode" /\ self._transform \in {"UPPER", "LOWER"}
    /\ dcall.op = "decode" /\ dcall.text = call.result.val

SamePlaces(text, key1, key2) ==
    \A c \in CharsOf(text) :
        str_index(AlphabetOf(key1), c) = str_index(AlphabetOf(key2), c)

C10_DocstringExample ==
    (/\ self._pad_up = 0 /\ self._secure_key = Some("secret")
     /\ self._transform = "UPPER")
    => /\ (call.op = "encode" /\ call.number = PyInt(12345))
          => call.result = Return(<< "H", "Q", "J" >>)
       /\ (dcall.op = "decode" /\ dcall.text = << "H", "Q", "J" >>)
          => dcall.result = Return(PyInt(12345))

-----------------------------------------------------------------------------
(* Key derivation on its own.  What hashlib returns for a key is an input: *)
(* the hexdigests are drawn, and the dictionary is built from them.        *)

\* The hexdigests drawn: every block of BlockLen hex characters, repeated to the
\* length of a sha256 hexdigest (64) and of a sha512 hexdigest (128).
BlockLen == 2

Blocks == [1..BlockLen -> {HexChars[i] : i \in 1..Len(HexChars)}]
Repeated(block, n) == [i \in 1..n |-> block[((i - 1) % Len(block)) + 1]]

\* A key a caller passes, with the hexdigests hashlib returns for it: None (never
\* hashed), "" and the keys in use with their digests, and a key that is not
\* empty with each of the digests drawn.
KeyInput(key, sha256_hash, sha512_hash) ==
    [op |-> "hashlib", secure_key |-> key,
     sha256 |-> sha256_hash, sha512 |-> sha512_hash]
KeyInputs ==
    {KeyInput(None, << >>, << >>)} \cup
    {KeyInput(Some(k), sha256_hexdigest(k), sha512_hexdigest(k)) :
        k \in KeyStrings \cup {""}} \cup
    {KeyInput(Some("key"), Repeated(block, 64), Repeated(block, 128)) :
        block \in Blocks}

\* _secure_dictionary(secure_key) if secure_key else _DICTIONARY
DictionaryFor(key, sha256_hash, sha512_hash) ==
    IF Truthy(key) THEN Shuffled(sha256_hash, sha512_hash) ELSE _DICTIONARY

\* No Encoder has been constructed.
NoEncoder == [_dictionary |-> << >>]

\* call holds the key and its hexdigests, self the Encoder once constructed with
\* the key, dcall the dictionary a module function works with once called.
KeyInit ==
    /\ call \in KeyInputs
    /\ self = NoEncoder
    /\ dcall = NoCall

\* Encoder(secure_key=key)
EncoderInit ==
    /\ self = NoEncoder
    /\ self' = [ _pad_up |-> 0,
                 _secure_key |-> call.secure_key,
                 _transform |-> "NONE",
                 _dictionary |-> DictionaryFor(call.secure_key,
                                               call.sha256, call.sha512) ]
    /\ UNCHANGED << call, dcall >>

\* The first statement of to_alphanumeric and of to_numeric.
FunctionDictionary ==
    /\ dcall = NoCall
    /\ dcall' = [op |-> "dictionary",
                 result |-> DictionaryFor(call.secure_key, call.sha256, call.sha512)]
    /\ UNCHANGED << call, self >>

KeyNext == EncoderInit \/ FunctionDictionary

KeySpec == KeyInit /\ [][KeyNext]_vars

\* The dictionaries built so far.
Derived ==
    (IF self # NoEncoder THEN {self._dictionary} ELSE {}) \cup
    (IF dcall.op # "none" THEN {dcall.result} ELSE {})

\* The place of a character in the canonical alphabet.
CanonicalPlace(c) == CHOOSE i \in 1.._DICT_LEN : _DICTIONARY[i] = c

\* d holds exactly the 62 canonical characters, none twice.
IsPermutation(d) ==
    /\ Len(d) = _DICT_LEN
    /\ \A i \in 1.._DICT_LEN : \E j \in 1.._DICT_LEN : d[j] = _DICTIONARY[i]
    /\ \A i, j \in 1.._DICT_LEN : i # j => d[i] # d[j]

\* Each character of d stands before the next one by the hex digit of digest at
\* its canonical place, greater digit first, and by canonical place among equal
\* digits.
IsStableDescending(d, digest) ==
    \A i \in 1..(_DICT_LEN - 1) :
        LET p == CanonicalPlace(d[i])
            q == CanonicalPlace(d[i + 1])
        IN  \/ ord(digest[p]) > ord(digest[q])
            \/ ord(digest[p]) = ord(digest[q]) /\ p < q

\* C11: the alphabet derived from a key that is not empty is a permutation of
\* the canonical alphabet, namely its characters stable-sorted by the hex digit at
\* the same place of the digest, descending, equal digits keeping canonical
\* order; for None and "" the alphabet is the canonical one.
C11_DerivedAlphabet ==
    \A d \in Derived :
        IF Truthy(call.secure_key)
        THEN IsPermutation(d) /\ IsStableDescending(d, call.sha256)
        ELSE d = _DICTIONARY

\* An Encoder was constructed with a key that is not empty, whose digest has the
\* same hex digit at two of its first 62 places and a greater digit after a
\* smaller one: the alphabet is not the canonical one.
C11_Witness ==
    /\ self # NoEncoder /\ Truthy(call.secure_key)
    /\ \E i, j \in 1.._DICT_LEN :
          /\ i < j
          /\ call.sha256[i] = call.sha256[j]
    /\ \E i, j \in 1.._DICT_LEN :
          /\ i < j
          /\ ord(call.sha256[i]) < ord(call.sha256[j])
    /\ self._dictionary # _DICTIONARY

=============================================================================
